---- MODULE Spec2Model ----
(***************************************************************************)
(* staticplanetscipy: one run of main() (src/staticplanetscipy/__main__.py) *)
(* as a state machine, repeated run after run over the persisted date      *)
(* cache, together with the two hashing functions get_item_id              *)
(* (__main__.py) and _get_id (atom.py).                                    *)
(*                                                                         *)
(* Text is a sequence of one-character strings.  SHA-256 is taken to be    *)
(* injective on byte strings and UTF-8 encoding is injective on text, so a *)
(* digest is represented by the byte string that was fed to the hash.      *)
(* Times are integers (abstract seconds).                                  *)
(***************************************************************************)
EXTENDS Integers, Sequences, FiniteSets, TLC

\* ---------------------------------------------------------------- bounds
MaxClock == 1      \* wall clock readings are 0..MaxClock
MaxFeeds == 2      \* longest config['feeds'] list
MaxEntries == 1    \* most entries in one feed document
MaxItems == 2      \* largest config['max_items']
MaxStrLen == 1     \* longest text handed to get_item_id / _get_id
MaxCtxLen == 2     \* longest content list handed to _get_id
TruncateWords == 1 \* config['truncate_words'] of the modelled configuration
DayLen == 2        \* abstract seconds in one calendar day

\* Python's None where a date (an integer) is expected
None == -1
\* Python's None where text is expected: no text contains this element
NoneS == <<"None">>

\* datetime.fromtimestamp() gives local time: UTC time shifted by the zone offset
UTCOffset == 1

Min(a, b) == IF a <= b THEN a ELSE b
Max(a, b) == IF a >= b THEN a ELSE b

\* all sequences over S of length at most n
RECURSIVE SeqsUpTo(_, _)
SeqsUpTo(S, n) ==
    IF n = 0 THEN {<<>>}
    ELSE LET shorter == SeqsUpTo(S, n - 1)
         IN  shorter \cup {Append(s, x) : s \in {t \in shorter : Len(t) = n - 1}, x \in S}

VARIABLES
    config,           \* the loaded configuration: feeds, max_items, truncate_words
    date_cache_file,  \* cache/date_cache.json on disk
    clock,            \* the wall clock, time.time()
    pc,               \* where main() is
    k,                \* position of the running for loop
    failed_urls,      \* main.failed_urls
    files,            \* main.files, a dict in insertion order, with what each file holds
    items,            \* main.items
    date_cache,       \* main.date_cache
    sorted_items,     \* history: items as sorted, before the cut to max_items
    first_seen,       \* history: the timestamp first ever recorded for each identity
    atom_entries,     \* the <id> and <updated> of the entries written to feed.xml
    prev,             \* history: the run a restored cache was taken from
    pure              \* arguments and results of the hashing functions

vars == <<config, date_cache_file, clock, pc, k, failed_urls, files, items,
          date_cache, sorted_items, first_seen, atom_entries, prev, pure>>

\* ------------------------------------------------------------ get_item_id
\* h.update(feed.url); h.update(url); h.update(title); h.update(description):
\* the digest of the four texts run together, nothing in between
get_item_id(feed_item) ==
    feed_item.feed.url \o feed_item.url \o feed_item.title \o feed_item.description

\* ---------------------------------------------------------------- _get_id
\* date.strftime('%Y-%m-%d'): the calendar day of a datetime
strftime_day(date) == date \div DayLen

\* the bytes hashed by _get_id: the salt, then each element (or "," for None)
\* followed by ","
RECURSIVE hash_content(_)
hash_content(content) ==
    IF content = <<>> THEN <<>>
    ELSE (IF Head(content) = NoneS THEN <<",">> ELSE Head(content))
            \o <<",">> \o hash_content(Tail(content))

\* "tag:{owner},{date}:/{hexdigest}" as its three parts
_get_id(owner, date, content) ==
    LET d == IF date = None THEN 0 ELSE date
    IN  <<owner, strftime_day(d), <<"github.com/spacetelescope/asv">> \o hash_content(content)>>

\* ------------------------------------------------------------ environment
URLs == {"u1", "u2"}

EmptyCache == [id \in {} |-> 0]

Put(d, key, v) == [x \in DOMAIN d \cup {key} |-> IF x = key THEN v ELSE d[x]]

\* feedparser entries: a dateless entry, the same entry with a published date,
\* and an entry without a link
EntryA ==
    [has_link |-> TRUE, link |-> <<"x">>, has_title |-> TRUE, title |-> <<"t">>,
     summary |-> <<(<<"w">>), (<<"w">>)>>, published |-> None, updated |-> None]
EntryB == [EntryA EXCEPT !.published = 2]
EntryC == [EntryA EXCEPT !.has_link = FALSE]
Entries == {EntryA, EntryB, EntryC}

\* what the file fetched for a url may hold: no file, a document that does not
\* parse, or a feed of at most MaxEntries entries
NoFile == [exists |-> FALSE, wellformed |-> FALSE, title |-> <<>>, link |-> <<>>, entries |-> <<>>]
BadDoc == [NoFile EXCEPT !.exists = TRUE]
\* the feeds behind the urls: two urls may serve the same feed
FeedHeads == {[title |-> <<"F">>, link |-> <<"f">>], [title |-> <<"G">>, link |-> <<"g">>]}
Docs ==
    {BadDoc} \cup
    {[exists |-> TRUE, wellformed |-> TRUE, title |-> h.title, link |-> h.link,
      entries |-> es] : h \in FeedHeads, es \in SeqsUpTo(Entries, MaxEntries)}

Configs ==
    {[feeds |-> fs, max_items |-> n, truncate_words |-> TruncateWords] :
        fs \in SeqsUpTo(URLs, MaxFeeds), n \in 0..MaxItems}

\* ------------------------------------------------------------ sanitize_html
\* content is a sequence of words; " ".join(parts)
RECURSIVE join(_)
join(parts) ==
    IF parts = <<>> THEN <<>>
    ELSE IF Len(parts) = 1 THEN parts[1]
    ELSE parts[1] \o <<" ">> \o join(Tail(parts))

\* bleach.clean(content, tags=tags, strip=True): markup outside the allowed tags goes
allowed_word(w) == w # <<"<script>">>
bleach_clean(parts) == SelectSeq(parts, allowed_word)

sanitize_html(content, truncate_words, link) ==
    LET parts == bleach_clean(content)
    IN  IF Len(parts) > truncate_words
        THEN join(bleach_clean(SubSeq(parts, 1, truncate_words)))
                \o <<" ", "<a href=">> \o link \o <<">(continued...)</a>">>
        ELSE join(parts)

\* ------------------------------------------------------------ main: parse
\* entry.get('published_parsed', entry.get('updated_parsed'))
entry_date(entry) == IF entry.published # None THEN entry.published ELSE entry.updated

\* the body of "for entry in entries": an entry without a link raises KeyError
\* in the first try block and is skipped; ord is the position at which the
\* item was appended (the identity of the Python object)
RECURSIVE parse_entries(_, _, _, _)
parse_entries(feed, entries, its, truncate_words) ==
    IF entries = <<>> THEN its
    ELSE LET entry == Head(entries)
         IN  IF ~entry.has_link
             THEN parse_entries(feed, Tail(entries), its, truncate_words)
             ELSE LET feeditem ==
                          [feed |-> feed,
                           url |-> entry.link,
                           title |-> IF entry.has_title THEN entry.title
                                     ELSE <<"U","n","t","i","t","l","e","d">>,
                           date |-> entry_date(entry),
                           description |-> sanitize_html(entry.summary, truncate_words,
                                                         entry.link),
                           ord |-> Len(its) + 1]
                  IN  parse_entries(feed, Tail(entries), Append(its, feeditem),
                                    truncate_words)

\* ------------------------------------------------------------ main: date cache
\* lines 158-164; ts[j] is what time.time() returns while item j is handled
RECURSIVE update_loop(_, _, _, _, _)
update_loop(its, j, cache, new_date_cache, ts) ==
    IF j > Len(its) THEN new_date_cache
    ELSE LET item_id == get_item_id(its[j])
         IN  IF item_id \in DOMAIN cache
             THEN update_loop(its, j + 1, cache, Put(new_date_cache, item_id, cache[item_id]), ts)
             ELSE update_loop(its, j + 1, cache, Put(new_date_cache, item_id, ts[j]), ts)

\* every item stamped anew, the prior cache ignored
update_date_cache_restamp(its, cache, ts) == update_loop(its, 1, EmptyCache, EmptyCache, ts)

\* the new cache grown from the prior cache instead of from {}
update_date_cache_keep(its, cache, ts) == update_loop(its, 1, cache, cache, ts)

update_date_cache(its, cache, ts) == update_loop(its, 1, cache, EmptyCache, ts)

\* datetime.datetime.fromtimestamp(t): local time
fromtimestamp(t) == t + UTCOffset

\* dateless items dated with the time of the run instead of the cached time
backfill_now(its, cache) ==
    [j \in 1..Len(its) |->
        IF its[j].date = None THEN [its[j] EXCEPT !.date = clock + UTCOffset] ELSE its[j]]

\* lines 173-180
backfill(its, cache) ==
    [j \in 1..Len(its) |->
        IF its[j].date = None
        THEN [its[j] EXCEPT !.date = fromtimestamp(cache[get_item_id(its[j])])]
        ELSE its[j]]

\* the feed's date taken as it is
sort_key_unclamped(item, cache) == item.date

\* lines 184-186
sort_key(item, cache) == Min(fromtimestamp(cache[get_item_id(item)]), item.date)

\* items.sort(key=sort_key, reverse=True): stable, largest key first; an item goes
\* behind every item already placed whose key is not smaller
RECURSIVE insert_desc(_, _, _)
insert_desc(sorted, item, cache) ==
    IF sorted = <<>> THEN <<item>>
    ELSE IF sort_key(Head(sorted), cache) >= sort_key(item, cache)
         THEN <<Head(sorted)>> \o insert_desc(Tail(sorted), item, cache)
         ELSE <<item>> \o sorted

RECURSIVE sort_loop(_, _, _)
sort_loop(its, done, cache) ==
    IF its = <<>> THEN done
    ELSE sort_loop(Tail(its), insert_desc(done, Head(its), cache), cache)

sort_items(its, cache) == sort_loop(its, <<>>, cache)

\* the last n items kept instead of the first n
del_from_tail(its, n) == SubSeq(its, Max(Len(its) - n, 0) + 1, Len(its))

\* del items[n:] with Python's slice rules
del_from(its, n) ==
    LET start == IF n >= 0 THEN Min(n, Len(its)) ELSE Max(Len(its) + n, 0)
    IN  SubSeq(its, 1, start)

\* lines 229-237 and FeedEntry.get_atom: each entry's <id> and <updated>
atom_entry(item, address) ==
    [id |-> _get_id(address, item.date, <<(<<"e","n","t","r","y">>), item.feed.url, item.url>>),
     updated |-> item.date]

\* ------------------------------------------------------------ main, step by step
PureIdle == [kind |-> "none"]
NoRun == [taken |-> FALSE]

Init ==
    /\ config \in Configs
    /\ date_cache_file \in {[state |-> st, data |-> EmptyCache] : st \in {"missing", "corrupt"}}
    /\ clock = 0
    /\ pc = "load"
    /\ k = 1
    /\ failed_urls = <<>>
    /\ files = <<>>
    /\ items = <<>>
    /\ date_cache = EmptyCache
    /\ sorted_items = <<>>
    /\ first_seen = EmptyCache
    /\ atom_entries = <<>>
    /\ prev = NoRun
    /\ pure = PureIdle

\* lines 67-71 and 86-88: json.load raises on a file that is not JSON, and
\* nothing catches it
LoadDateCache ==
    /\ pc = "load"
    /\ IF date_cache_file.state = "corrupt"
       THEN /\ pc' = "crashed"
            /\ UNCHANGED date_cache
       ELSE /\ pc' = "fetch"
            /\ date_cache' = IF date_cache_file.state = "ok" THEN date_cache_file.data
                             ELSE EmptyCache
    /\ UNCHANGED <<config, date_cache_file, clock, k, failed_urls, files, items,
                   sorted_items, atom_entries, first_seen, prev, pure>>

\* files[url] = fn: a dict keeps the place of a key it already has
dict_set(d, url, doc) ==
    IF \E j \in 1..Len(d) : d[j].url = url
    THEN [j \in 1..Len(d) |-> IF d[j].url = url THEN [url |-> url, doc |-> doc] ELSE d[j]]
    ELSE Append(d, [url |-> url, doc |-> doc])

\* fetch_url raised: the except branch has unlinked the file of this url
unlinked(d, url) ==
    [j \in 1..Len(d) |-> IF d[j].url = url THEN [url |-> url, doc |-> NoFile] ELSE d[j]]

\* lines 89-94, one url of config['feeds']
FetchFails ==
    /\ pc = "fetch"
    /\ k <= Len(config.feeds)
    /\ failed_urls' = Append(failed_urls, config.feeds[k])
    /\ files' = unlinked(files, config.feeds[k])
    /\ k' = k + 1
    /\ UNCHANGED <<config, date_cache_file, clock, pc, items, date_cache, sorted_items,
                   first_seen, atom_entries, prev, pure>>

FetchReturns ==
    /\ pc = "fetch"
    /\ k <= Len(config.feeds)
    /\ \E doc \in Docs : files' = dict_set(files, config.feeds[k], doc)
    /\ k' = k + 1
    /\ UNCHANGED <<config, date_cache_file, clock, pc, failed_urls, items, date_cache,
                   sorted_items, first_seen, atom_entries, prev, pure>>

\* lines 102-153, "for url, fn in files.items()": feedparser.parse gives no feed
\* title for a document that does not parse (or a file that is gone), so
\* data['feed']['title'] raises KeyError and the url is reported as failed
RECURSIVE parse_files(_, _, _, _)
parse_files(fs, failed, its, truncate_words) ==
    IF fs = <<>> THEN [failed_urls |-> failed, items |-> its]
    ELSE LET url == Head(fs).url
             data == Head(fs).doc
         IN  IF ~(data.exists /\ data.wellformed)
             THEN parse_files(Tail(fs), Append(failed, url), its, truncate_words)
             ELSE parse_files(Tail(fs), failed,
                              parse_entries([id |-> url, title |-> data.title, url |-> data.link],
                                            data.entries, its, truncate_words),
                              truncate_words)

Parse ==
    /\ pc = "fetch"
    /\ k > Len(config.feeds)
    /\ LET r == parse_files(files, failed_urls, items, config.truncate_words)
       IN  /\ failed_urls' = r.failed_urls
           /\ items' = r.items
    /\ pc' = "process"
    /\ UNCHANGED <<config, date_cache_file, clock, k, files, date_cache, sorted_items,
                   first_seen, atom_entries, prev, pure>>

\* the readings of time.time() during the loop: the clock does not run backwards
Readings(n, now) ==
    {ts \in [1..n -> now..MaxClock] : \A j \in 1..n : (IF j = 1 THEN now ELSE ts[j - 1]) <= ts[j]}

\* lines 158-170: build new_date_cache, make it date_cache, write it over the file
UpdateDateCache ==
    /\ pc = "process"
    /\ \E ts \in Readings(Len(items), clock) :
          /\ date_cache' = update_date_cache(items, date_cache, ts)
          /\ clock' = IF Len(items) = 0 THEN clock ELSE ts[Len(items)]
    /\ date_cache_file' = [state |-> "ok", data |-> date_cache']
    /\ first_seen' = [id \in DOMAIN first_seen \cup DOMAIN date_cache' |->
                         IF id \in DOMAIN first_seen THEN first_seen[id] ELSE date_cache'[id]]
    /\ pc' = "output"
    /\ UNCHANGED <<config, k, failed_urls, files, items, sorted_items, atom_entries, prev, pure>>

\* lines 172-244: backfill the dates, sort, cut to max_items, write feed.xml
ProduceOutput ==
    /\ pc = "output"
    /\ sorted_items' = sort_items(backfill(items, date_cache), date_cache)
    /\ items' = del_from(sorted_items', config.max_items)
    /\ atom_entries' = [j \in 1..Len(items') |-> atom_entry(items'[j], <<"a">>)]
    /\ pc' = "done"
    /\ UNCHANGED <<config, date_cache_file, clock, k, failed_urls, files, date_cache,
                   first_seen, prev, pure>>

\* the process has ended and the program is started again, now or later: only
\* the files are left of the run before
NextRun ==
    /\ pc = "done"
    /\ pc' = "load"
    /\ clock' \in {clock, Min(clock + 1, MaxClock)}
    /\ k' = 1
    /\ failed_urls' = <<>>
    /\ files' = <<>>
    /\ items' = <<>>
    /\ date_cache' = EmptyCache
    /\ sorted_items' = <<>>
    /\ atom_entries' = <<>>
    /\ UNCHANGED <<config, date_cache_file, first_seen, prev, pure>>

Run ==
    \/ LoadDateCache
    \/ FetchFails
    \/ FetchReturns
    \/ Parse
    \/ UpdateDateCache
    \/ ProduceOutput

Next == Run \/ NextRun

Spec == Init /\ [][Next]_vars

\* ------------------------------------------------------------ two runs on one input
\* The identities the feeds of this model can produce, and the date caches a
\* run can have left behind by the time the clock shows `now`
AllItems ==
    UNION {{parse_entries([id |-> u, title |-> h.title, url |-> h.link],
                          <<e>>, <<>>, TruncateWords)[1] : e \in {EntryA, EntryB}} :
                u \in URLs, h \in FeedHeads}
AllItemIds == {get_item_id(i) : i \in AllItems}
Caches(now) == UNION {[ids -> 0..now] : ids \in SUBSET AllItemIds}

\* what main.files can hold once every url of config['feeds'] has been fetched
RECURSIVE fetched(_, _)
fetched(feeds, d) ==
    IF feeds = <<>> THEN {d}
    ELSE UNION {fetched(Tail(feeds), dict_set(d, Head(feeds), doc)) : doc \in Docs}

\* the configurations that name no url twice
IsInjective(seq) == \A i, j \in 1..Len(seq) : seq[i] = seq[j] => i = j

\* main() at line 155 (fetching and parsing are over), over every configuration
\* of distinct urls, every fetched document and every date cache an earlier run
\* can have written
InitDet ==
    /\ config \in {c \in Configs : IsInjective(c.feeds)}
    /\ clock \in 0..MaxClock
    /\ date_cache \in Caches(clock)
    /\ date_cache_file = [state |-> "ok", data |-> date_cache]
    /\ first_seen = date_cache
    /\ files \in fetched(config.feeds, <<>>)
    /\ LET r == parse_files(files, <<>>, <<>>, config.truncate_words)
       IN  /\ failed_urls = r.failed_urls
           /\ items = r.items
    /\ k = Len(config.feeds) + 1
    /\ pc = "process"
    /\ sorted_items = <<>>
    /\ atom_entries = <<>>
    /\ prev = [taken |-> FALSE, in_items |-> items, in_cache |-> date_cache,
               out_items |-> <<>>, out_cache |-> EmptyCache, out_clock |-> 0]
    /\ pure = PureIdle

\* the finished run is repeated, now or later, on the same parsed entries and
\* with the date cache file put back as it was before the run
Replay ==
    /\ pc = "done"
    /\ ~prev.taken
    /\ prev' = [prev EXCEPT !.taken = TRUE, !.out_items = items, !.out_cache = date_cache,
                             !.out_clock = clock]
    /\ items' = prev.in_items
    /\ date_cache' = prev.in_cache
    /\ date_cache_file' = [state |-> "ok", data |-> prev.in_cache]
    /\ clock' \in {clock, Min(clock + 1, MaxClock)}
    /\ sorted_items' = <<>>
    /\ atom_entries' = <<>>
    /\ pc' = "process"
    /\ UNCHANGED <<config, k, failed_urls, files, first_seen, pure>>

NextDet == UpdateDateCache \/ ProduceOutput \/ Replay

SpecDet == InitDet /\ [][NextDet]_vars

\* ------------------------------------------------------------ the hashing functions alone
ItemTexts == SeqsUpTo({"a"}, MaxStrLen)
HashedItems ==
    {[feed |-> [url |-> f], url |-> u, title |-> t, description |-> d] :
        f \in ItemTexts, u \in ItemTexts, t \in ItemTexts, d \in ItemTexts}

ContextTexts == SeqsUpTo({"a", ","}, MaxStrLen) \cup {NoneS}
Contexts == SeqsUpTo(ContextTexts, MaxCtxLen)

NoItem == [feed |-> [url |-> <<>>], url |-> <<>>, title |-> <<>>, description |-> <<>>]
NoTag == <<(<<>>), 0, (<<>>)>>

InitId ==
    /\ pure \in {[kind |-> "item", a |-> a, b |-> b, ca |-> <<>>, cb |-> <<>>, date |-> None,
                   done |-> FALSE, ida |-> <<>>, idb |-> <<>>, taga |-> NoTag, tagb |-> NoTag] :
                        a \in HashedItems, b \in HashedItems}
              \cup
              {[kind |-> "atom", a |-> NoItem, b |-> NoItem, ca |-> ca, cb |-> cb, date |-> d,
                done |-> FALSE, ida |-> <<>>, idb |-> <<>>, taga |-> NoTag, tagb |-> NoTag] :
                        ca \in Contexts, cb \in Contexts, d \in {None, DayLen}}
    /\ config = [feeds |-> <<>>, max_items |-> 0, truncate_words |-> TruncateWords]
    /\ date_cache_file = [state |-> "missing", data |-> EmptyCache]
    /\ clock = 0
    /\ pc = "pure"
    /\ k = 1
    /\ failed_urls = <<>>
    /\ files = <<>>
    /\ items = <<>>
    /\ date_cache = EmptyCache
    /\ sorted_items = <<>>
    /\ first_seen = EmptyCache
    /\ atom_entries = <<>>
    /\ prev = NoRun

\* get_item_id on two items
ComputeItemIds ==
    /\ pure.kind = "item"
    /\ ~pure.done
    /\ pure' = [pure EXCEPT !.done = TRUE, !.ida = get_item_id(pure.a),
                             !.idb = get_item_id(pure.b)]
    /\ UNCHANGED <<config, date_cache_file, clock, pc, k, failed_urls, files, items,
                   date_cache, sorted_items, first_seen, atom_entries, prev>>

\* _get_id on two content lists, with one owner and one date
ComputeAtomIds ==
    /\ pure.kind = "atom"
    /\ ~pure.done
    /\ pure' = [pure EXCEPT !.done = TRUE, !.taga = _get_id(<<"o">>, pure.date, pure.ca),
                             !.tagb = _get_id(<<"o">>, pure.date, pure.cb)]
    /\ UNCHANGED <<config, date_cache_file, clock, pc, k, failed_urls, files, items,
                   date_cache, sorted_items, first_seen, atom_entries, prev>>

NextId == ComputeItemIds \/ ComputeAtomIds

SpecId == InitId /\ [][NextId]_vars

\* ------------------------------------------------------------ the claims
ItemIdsOf(its) == {get_item_id(its[j]) : j \in 1..Len(its)}
CacheOnDisk == date_cache_file.data

\* the effective sort date of the specification: the earlier of the first-seen
\* time of the item's identity (as local time) and the item's date
EffectiveDate(item) ==
    LET seen == date_cache[get_item_id(item)] + UTCOffset
    IN  IF item.date < seen THEN item.date ELSE seen

\* C1, as stated: whenever an identity is in the date cache, its timestamp is
\* the one first recorded for it, whatever the runs in between saw.
FirstSeenNeverChanges ==
    \A id \in DOMAIN CacheOnDisk : CacheOnDisk[id] = first_seen[id]

\* C1, amended: a run never changes the timestamp of an identity that is in the
\* cache before and after it, and a run whose items are exactly the identities
\* of the prior cache writes that cache back unchanged.
CacheCarriedForward ==
    [][/\ \A id \in DOMAIN CacheOnDisk \cap DOMAIN CacheOnDisk' :
              CacheOnDisk'[id] = CacheOnDisk[id]
       /\ (pc = "process" /\ pc' = "output" /\ ItemIdsOf(items) = DOMAIN date_cache)
              => (date_cache' = date_cache /\ CacheOnDisk' = date_cache)]_vars

\* a run has just kept the timestamp an earlier run recorded: its only item is
\* stamped earlier than anything this run can have read from the clock
CarriedForwardReached ==
    /\ pc = "output"
    /\ Len(items) = 1
    /\ date_cache[get_item_id(items[1])] < clock
    /\ date_cache[get_item_id(items[1])] = first_seen[get_item_id(items[1])]

\* C2: after the date cache update the keys of the persisted cache are exactly
\* the identities of the run's items.
CacheKeysAreCurrentItems ==
    /\ pc = "output" =>
          /\ date_cache_file.state = "ok"
          /\ DOMAIN CacheOnDisk = ItemIdsOf(items)
          /\ DOMAIN date_cache = ItemIdsOf(items)
    /\ pc = "done" => DOMAIN CacheOnDisk = ItemIdsOf(sorted_items)

\* an identity recorded by an earlier run is gone, one identity is there twice
PrunedReached ==
    /\ pc = "output"
    /\ \E id \in DOMAIN first_seen : id \notin DOMAIN CacheOnDisk
    /\ \E i, j \in 1..Len(items) : i < j /\ get_item_id(items[i]) = get_item_id(items[j])

\* C3: the output is ordered newest first by the effective sort date, and items
\* of equal effective date stay in the order in which they were encountered.
OrderedNewestFirst(its) ==
    \A i, j \in 1..Len(its) :
        i < j => \/ EffectiveDate(its[i]) > EffectiveDate(its[j])
                 \/ /\ EffectiveDate(its[i]) = EffectiveDate(its[j])
                    /\ its[i].ord < its[j].ord

Produced(url) ==
    \E j \in 1..Len(files) :
        files[j].url = url /\ files[j].doc.exists /\ files[j].doc.wellformed
Configured == {config.feeds[j] : j \in 1..Len(config.feeds)}
Occurrences(seq, x) == Cardinality({j \in 1..Len(seq) : seq[j] = x})
ValidEntries(url) ==
    LET doc == (CHOOSE j \in 1..Len(files) : files[j].url = url)
    IN  SelectSeq(files[doc].doc.entries, LAMBDA e : e.has_link)

FailureIsolation ==
    pc = "process" =>
        \A url \in Configured :
            /\ Occurrences(failed_urls, url) = (IF Produced(url) THEN 0 ELSE 1)
            /\ Produced(url) =>
                  \A n \in 1..Len(ValidEntries(url)) :
                      \E j \in 1..Len(items) :
                          /\ items[j].feed.id = url
                          /\ items[j].url = ValidEntries(url)[n].link
                          /\ items[j].date = entry_date(ValidEntries(url)[n])

\* C5, as stated: two runs on the same parsed entries and the same prior cache
\* give the same item list and the same new cache, whatever the clock shows.
SameOutput ==
    /\ items = prev.out_items
    /\ date_cache = prev.out_cache
    /\ CacheOnDisk = prev.out_cache

DeterministicWhateverTheClock ==
    (pc = "done" /\ prev.taken) => SameOutput

\* C5, amended: the two runs agree when every item's identity is already in the
\* prior cache.
DeterministicWhenAllCached ==
    (pc = "done" /\ prev.taken /\ ItemIdsOf(prev.in_items) \subseteq DOMAIN prev.in_cache)
        => SameOutput

\* a later second run over cached items, some without a feed date
RerunOfCachedReached ==
    /\ pc = "done"
    /\ prev.taken
    /\ clock > prev.out_clock
    /\ Len(sorted_items) >= 2
    /\ ItemIdsOf(prev.in_items) \subseteq DOMAIN prev.in_cache
    /\ \E j \in 1..Len(prev.in_items) : prev.in_items[j].date = None

\* C6, as stated: a date cache file that is missing or cannot be read does not
\* end the run; the run goes on with an empty prior cache.
CacheReadFailureNotFatal ==
    /\ pc # "crashed"
    /\ (pc = "fetch" /\ date_cache_file.state # "ok") => date_cache = EmptyCache

\* C7, as stated: two items have the same identity exactly when their four
\* fields are equal.
IdentityIffFieldsEqual ==
    (pure.kind = "item" /\ pure.done) => ((pure.ida = pure.idb) <=> (pure.a = pure.b))

\* C8, as stated: for one owner and date, two content lists get the same id
\* exactly when they are the same list.
AtomIdIffContextEqual ==
    (pure.kind = "atom" /\ pure.done) => ((pure.taga = pure.tagb) <=> (pure.ca = pure.cb))

\* C9: for max_items >= 0 the output is the first min(max_items, n) items of the
\* sorted list, no discarded item is newer than a kept one, and the date cache
\* still holds the identity of every sorted item.
Truncated ==
    (pc = "done" /\ config.max_items >= 0) =>
        LET n == Len(sorted_items)
            m == IF config.max_items < n THEN config.max_items ELSE n
        IN  /\ Len(items) = m
            /\ \A j \in 1..m : items[j] = sorted_items[j]
            /\ \A i \in 1..m : \A j \in (m + 1)..n :
                  EffectiveDate(sorted_items[i]) >= EffectiveDate(sorted_items[j])
            /\ \A j \in 1..n : get_item_id(sorted_items[j]) \in DOMAIN CacheOnDisk

\* items were cut off, one of them with an identity no kept item has
TruncationReached ==
    /\ pc = "done"
    /\ config.max_items > 0
    /\ Len(sorted_items) > Len(items)
    /\ \E j \in (Len(items) + 1)..Len(sorted_items) :
          get_item_id(sorted_items[j]) \notin ItemIdsOf(items)

\* C10, as stated: no two items of the output list have the same identity.
OutputDeduplicated ==
    pc = "done" =>
        \A i, j \in 1..Len(items) : i # j => get_item_id(items[i]) # get_item_id(items[j])

====
